---- MODULE Spec2Model ----
(***************************************************************************)
(* Karatsuba and Toom-3 multiplication (python/karatsuba.py,               *)
(* python/toom3.py) as state machines.                                     *)
(*                                                                         *)
(*   SpecS  test_split_number: one call of split_number(n, b)              *)
(*   SpecI  evaluate_at_points / pointwise product / interpolate on        *)
(*          integer triples and on raw 5-vectors                           *)
(*   SpecT  one call of toom3(x, y), statement group by statement group    *)
(*   SpecK  one call of karatsuba(x, y) with its call stack                *)
(*                                                                         *)
(* Python's // and % with a positive divisor are floor division and the    *)
(* non-negative remainder, which is what \div and % are here.              *)
(***************************************************************************)
EXTENDS Integers, Sequences, FiniteSets

VARIABLES
    \* split_number harness
    spc, sn, sb, sparts,
    \* evaluate / interpolate harness
    ipc, isrc, tri1, tri2, ipoints, icoeffs, outcome,
    \* toom3(x, y)
    tpc, tx, ty, tb, xparts, yparts, px, py, points, coeffs, tresult, calls,
    \* karatsuba(x, y)
    kmode, stack, ret, kx, ky

svars == <<spc, sn, sb, sparts>>
ivars == <<ipc, isrc, tri1, tri2, ipoints, icoeffs, outcome>>
tvars == <<tpc, tx, ty, tb, xparts, yparts, px, py, points, coeffs, tresult, calls>>
kvars == <<kmode, stack, ret, kx, ky>>
vars == <<svars, ivars, tvars, kvars>>

----------------------------------------------------------------------------
(* Bounds of the model *)

SMaxN == 60          \* split_number harness: n in 0 .. SMaxN
SMaxBase == 12       \* split_number harness: b in 1 .. SMaxBase
ITripleMax == 2      \* first triple: coordinates in -ITripleMax .. ITripleMax
ISecondMax == 1      \* second triple: coordinates in -ISecondMax .. ISecondMax
IRawMax == 1         \* raw 5-vectors: entries in -IRawMax .. IRawMax
TMaxSmall == 2       \* toom3 operands: 0 .. TMaxSmall,
TStride == 1237      \*   T_TOOM3 + k * TStride for k in 0 .. TCount,
TCount == 100
TMaxPow == 6         \*   and the powers of ten up to 10 ** TMaxPow
TMaxProduct == 2000000000   \* toom3 is called only when x * y <= TMaxProduct
KMaxSmall == 50      \* karatsuba operands: 0 .. KMaxSmall,
KStride == 123       \*   and k * KStride for k in 1 .. KCount
KCount == 12
KMaxDepth == 6       \* cap on the depth of the karatsuba call stack

(* Program constants *)

T_TOOM3 == 1000      \* toom3: if x < 1000 or y < 1000
T_KARATSUBA == 10    \* karatsuba: if x < 10 or y < 10

----------------------------------------------------------------------------
(* Pure helpers *)

\* 10 ** k
RECURSIVE Pow10(_)
Pow10(k) == IF k <= 0 THEN 1 ELSE 10 * Pow10(k - 1)

\* len(str(n)): the decimal digits of n, and the sign of a negative n
RECURSIVE StrLen(_)
StrLen(n) ==
    IF n < 0 THEN 1 + StrLen(-n)
    ELSE IF n < 10 THEN 1
    ELSE 1 + StrLen(n \div 10)

Max(a, b) == IF a >= b THEN a ELSE b

----------------------------------------------------------------------------
(* toom3.py: split_number, evaluate_at_points, interpolate *)

\* plausible bug: the top part reduced modulo b like the others
split_number_top_mod(n, b) == <<n % b, (n \div b) % b, (n \div (b * b)) % b>>

\* plausible bug: the middle part not reduced modulo b
split_number_mid_raw(n, b) == <<n % b, n \div b, n \div (b * b)>>

split_number(n, b) == <<n % b, (n \div b) % b, n \div (b * b)>>

\* plausible bug: P(2) with the wrong weight on x2
evaluate_at_points_p2(x0, x1, x2) ==
    <<x0, x0 + x1 + x2, x0 - x1 + x2, x0 + 2 * x1 + 2 * x2, x2>>

evaluate_at_points(x0, x1, x2) ==
    <<x0, x0 + x1 + x2, x0 - x1 + x2, x0 + 2 * x1 + 4 * x2, x2>>

\* points = [px[i] * py[i] for i in range(5)]
pointwise(a, b) == [i \in 1..5 |-> a[i] * b[i]]

\* the intermediate values of interpolate, in the order the code computes them
InterpC2(p) == ((p[2] + p[3]) \div 2) - p[1] - p[5]
InterpS(p) == (p[2] - p[3]) \div 2
InterpTemp(p) == p[4] - p[1] - 4 * InterpC2(p) - 16 * p[5]

\* plausible bug: D divided by 2 instead of 3
InterpD_half(p) == (5 * InterpS(p) - InterpTemp(p)) \div 2

InterpD(p) == (5 * InterpS(p) - InterpTemp(p)) \div 3

\* plausible bug: c1 and c3 swapped
interpolate_swapped(p) ==
    <<p[1], (InterpS(p) - InterpD(p)) \div 2, InterpC2(p),
      (InterpS(p) + InterpD(p)) \div 2, p[5]>>

interpolate(p) ==
    <<p[1], (InterpS(p) + InterpD(p)) \div 2, InterpC2(p),
      (InterpS(p) - InterpD(p)) \div 2, p[5]>>

\* the dividends and divisors of the five // of interpolate
InterpDividends(p) ==
    <<p[2] + p[3], p[2] - p[3], 5 * InterpS(p) - InterpTemp(p),
      InterpS(p) + InterpD(p), InterpS(p) - InterpD(p)>>
InterpDivisors == <<2, 2, 3, 2, 2>>

----------------------------------------------------------------------------
(* Initial state: nothing has been called *)

Zero3 == <<0, 0, 0>>
Zero5 == <<0, 0, 0, 0, 0>>

SInit == spc = "idle" /\ sn = 0 /\ sb = 1 /\ sparts = Zero3
IInit ==
    /\ ipc = "idle" /\ isrc = "none" /\ tri1 = Zero3 /\ tri2 = Zero3
    /\ ipoints = Zero5 /\ icoeffs = Zero5 /\ outcome = "none"
TInit ==
    /\ tpc = "idle" /\ tx = 0 /\ ty = 0 /\ tb = 1
    /\ xparts = Zero3 /\ yparts = Zero3 /\ px = Zero5 /\ py = Zero5
    /\ points = Zero5 /\ coeffs = Zero5 /\ tresult = 0 /\ calls = 0
KInit == kmode = "idle" /\ stack = <<>> /\ ret = 0 /\ kx = 0 /\ ky = 0

Init == SInit /\ IInit /\ TInit /\ KInit

\* each specification runs one machine; the others stand still
SOnly == UNCHANGED <<ivars, tvars, kvars>>
IOnly == UNCHANGED <<svars, tvars, kvars>>
TOnly == UNCHANGED <<svars, ivars, kvars>>
KOnly == UNCHANGED <<svars, ivars, tvars>>

----------------------------------------------------------------------------
(* SpecS: test_split_number calls split_number(num, base) *)

SplitCall(n, b) ==
    /\ spc = "idle"
    /\ sn' = n /\ sb' = b
    /\ sparts' = split_number(n, b)
    /\ spc' = "split"

\* the next test case
SplitReset ==
    /\ spc = "split"
    /\ spc' = "idle"
    /\ UNCHANGED <<sn, sb, sparts>>

SNext ==
    \/ spc = "idle" /\ \E n \in 0..SMaxN, b \in 1..SMaxBase : SplitCall(n, b) /\ SOnly
    \/ SplitReset /\ SOnly

SpecS == Init /\ [][SNext]_vars

----------------------------------------------------------------------------
(* SpecI: evaluation, pointwise product and interpolation on triples *)

Triples(k) == {<<a, b, c>> : a \in -k..k, b \in -k..k, c \in -k..k}
Vectors(k) ==
    {<<a, b, c, d, e>> : a \in -k..k, b \in -k..k, c \in -k..k,
                         d \in -k..k, e \in -k..k}

Eval(t) == evaluate_at_points(t[1], t[2], t[3])

\* evaluate_at_points on one triple
IEvaluate(t) ==
    /\ ipc = "idle"
    /\ tri1' = t
    /\ ipoints' = Eval(t)
    /\ isrc' = "single"
    /\ ipc' = "evaluated"
    /\ UNCHANGED <<tri2, icoeffs, outcome>>

\* evaluate_at_points on a second triple and the pointwise product of the two
IPointwise(u) ==
    /\ ipc = "evaluated"
    /\ tri2' = u
    /\ ipoints' = pointwise(Eval(tri1), Eval(u))
    /\ isrc' = "product"
    /\ ipc' = "multiplied"
    /\ UNCHANGED <<tri1, icoeffs, outcome>>

\* a caller hands interpolate any list of five integers
IRaw(v) ==
    /\ ipc = "idle"
    /\ ipoints' = v
    /\ isrc' = "raw"
    /\ ipc' = "multiplied"
    /\ UNCHANGED <<tri1, tri2, icoeffs, outcome>>

\* interpolate(points): it has no assert and no raise, it always returns
IInterpolate ==
    /\ ipc \in {"evaluated", "multiplied"}
    /\ icoeffs' = interpolate(ipoints)
    /\ outcome' = "returned"
    /\ ipc' = "interpolated"
    /\ UNCHANGED <<isrc, tri1, tri2, ipoints>>

INext ==
    \/ ipc = "idle" /\ \E t \in Triples(ITripleMax) : IEvaluate(t) /\ IOnly
    \/ ipc = "evaluated" /\ \E u \in Triples(ISecondMax) : IPointwise(u) /\ IOnly
    \/ ipc = "idle" /\ \E v \in Vectors(IRawMax) : IRaw(v) /\ IOnly
    \/ IInterpolate /\ IOnly

SpecI == Init /\ [][INext]_vars

----------------------------------------------------------------------------
(* SpecT: one call of toom3(x, y) *)

TOperands ==
    (0..TMaxSmall) \cup {T_TOOM3 - 1}
        \cup {T_TOOM3 + k * TStride : k \in 0..TCount}
        \cup {Pow10(k) : k \in 3..TMaxPow}

\* b = 10 ** (max(len(str(x)), len(str(y))) // 3)
ToomBase(x, y) == Pow10(Max(StrLen(x), StrLen(y)) \div 3)

\* plausible bug: c3 weighted by b ** 2
Recombine_c3(c, b) ==
    c[1] + c[2] * b + c[3] * (b * b) + c[4] * (b * b) + c[5] * (b * b * b * b)

\* c0 + c1 * b + c2 * (b ** 2) + c3 * (b ** 3) + c4 * (b ** 4)
Recombine(c, b) ==
    c[1] + c[2] * b + c[3] * (b * b) + c[4] * (b * b * b) + c[5] * (b * b * b * b)

\* toom3(x, y) is entered; calls counts the invocations of toom3
TCall(x, y) ==
    /\ tpc = "idle"
    /\ IF x = 0 THEN TRUE ELSE y <= TMaxProduct \div x
    /\ tx' = x /\ ty' = y
    /\ calls' = calls + 1
    /\ tpc' = "entry"
    /\ UNCHANGED <<tb, xparts, yparts, px, py, points, coeffs, tresult>>

\* if x < 1000 or y < 1000: return x * y
TBase ==
    /\ tpc = "entry"
    /\ tx < T_TOOM3 \/ ty < T_TOOM3
    /\ tresult' = tx * ty
    /\ tpc' = "done"
    /\ UNCHANGED <<tx, ty, tb, xparts, yparts, px, py, points, coeffs, calls>>

\* n, b, and the two split_number calls
TSplit ==
    /\ tpc = "entry"
    /\ ~(tx < T_TOOM3 \/ ty < T_TOOM3)
    /\ tb' = ToomBase(tx, ty)
    /\ xparts' = split_number(tx, tb')
    /\ yparts' = split_number(ty, tb')
    /\ tpc' = "split"
    /\ UNCHANGED <<tx, ty, px, py, points, coeffs, tresult, calls>>

\* the two evaluate_at_points calls
TEvaluate ==
    /\ tpc = "split"
    /\ px' = evaluate_at_points(xparts[1], xparts[2], xparts[3])
    /\ py' = evaluate_at_points(yparts[1], yparts[2], yparts[3])
    /\ tpc' = "evaluated"
    /\ UNCHANGED <<tx, ty, tb, xparts, yparts, points, coeffs, tresult, calls>>

\* points = [px[i] * py[i] for i in range(5)]: the products are taken with *,
\* toom3 is not invoked again
TPointwise ==
    /\ tpc = "evaluated"
    /\ points' = pointwise(px, py)
    /\ tpc' = "multiplied"
    /\ UNCHANGED <<tx, ty, tb, xparts, yparts, px, py, coeffs, tresult, calls>>

TInterpolate ==
    /\ tpc = "multiplied"
    /\ coeffs' = interpolate(points)
    /\ tpc' = "interpolated"
    /\ UNCHANGED <<tx, ty, tb, xparts, yparts, px, py, points, tresult, calls>>

TRecombine ==
    /\ tpc = "interpolated"
    /\ tresult' = Recombine(coeffs, tb)
    /\ tpc' = "done"
    /\ UNCHANGED <<tx, ty, tb, xparts, yparts, px, py, points, coeffs, calls>>

TNext ==
    \/ tpc = "idle" /\ \E x \in TOperands, y \in TOperands : TCall(x, y) /\ TOnly
    \/ TBase /\ TOnly
    \/ TSplit /\ TOnly
    \/ TEvaluate /\ TOnly
    \/ TPointwise /\ TOnly
    \/ TInterpolate /\ TOnly
    \/ TRecombine /\ TOnly

SpecT == Init /\ [][TNext]_vars

----------------------------------------------------------------------------
(* SpecK: one call of karatsuba(x, y) and the calls it makes *)

KOperands == (0..KMaxSmall) \cup {k * KStride : k \in 1..KCount}

\* plausible bug: m = n instead of n // 2
KarM_full(x, y) == Max(StrLen(x), StrLen(y))

\* n = max(len(str(x)), len(str(y))); m = n // 2
KarM(x, y) == Max(StrLen(x), StrLen(y)) \div 2

\* plausible bug: bd is not subtracted from the middle term
KarCombine_no_bd(ac, bd, mid, m) ==
    ac * Pow10(2 * m) + (mid - ac) * Pow10(m) + bd

\* ad_plus_bc = mid - ac - bd; ac * 10 ** (2 * m) + ad_plus_bc * 10 ** m + bd
KarCombine(ac, bd, mid, m) ==
    ac * Pow10(2 * m) + (mid - ac - bd) * Pow10(m) + bd

\* a frame of karatsuba: its arguments, its locals, and the call it waits for
Frame(x, y) ==
    [x |-> x, y |-> y, m |-> 0, a |-> 0, b |-> 0, c |-> 0, d |-> 0,
     ac |-> 0, bd |-> 0, pc |-> "entry"]

Top == stack[Len(stack)]
Pop == SubSeq(stack, 1, Len(stack) - 1)
SetTop(f) == [stack EXCEPT ![Len(stack)] = f]

\* the caller's karatsuba(x, y)
KCall(x, y) ==
    /\ kmode = "idle"
    /\ kx' = x /\ ky' = y
    /\ stack' = <<Frame(x, y)>>
    /\ kmode' = "call"
    /\ UNCHANGED ret

\* if x < 10 or y < 10: return x * y
KBase ==
    /\ kmode = "call"
    /\ Top.x < T_KARATSUBA \/ Top.y < T_KARATSUBA
    /\ ret' = Top.x * Top.y
    /\ stack' = Pop
    /\ kmode' = IF Len(stack) = 1 THEN "done" ELSE "return"
    /\ UNCHANGED <<kx, ky>>

\* the split, then ac = karatsuba(a, c)
KRecurseAC ==
    /\ kmode = "call"
    /\ ~(Top.x < T_KARATSUBA \/ Top.y < T_KARATSUBA)
    /\ Len(stack) < KMaxDepth
    /\ LET m == KarM(Top.x, Top.y)
           divisor == Pow10(m)
           f == [Top EXCEPT !.m = m,
                            !.a = Top.x \div divisor, !.b = Top.x % divisor,
                            !.c = Top.y \div divisor, !.d = Top.y % divisor,
                            !.pc = "ac"]
       IN stack' = Append(SetTop(f), Frame(f.a, f.c))
    /\ kmode' = "call"
    /\ UNCHANGED <<ret, kx, ky>>

\* ac is back; bd = karatsuba(b, d)
KRecurseBD ==
    /\ kmode = "return"
    /\ Top.pc = "ac"
    /\ LET f == [Top EXCEPT !.ac = ret, !.pc = "bd"]
       IN stack' = Append(SetTop(f), Frame(f.b, f.d))
    /\ kmode' = "call"
    /\ UNCHANGED <<ret, kx, ky>>

\* bd is back; karatsuba(a + b, c + d)
KRecurseMid ==
    /\ kmode = "return"
    /\ Top.pc = "bd"
    /\ LET f == [Top EXCEPT !.bd = ret, !.pc = "mid"]
       IN stack' = Append(SetTop(f), Frame(f.a + f.b, f.c + f.d))
    /\ kmode' = "call"
    /\ UNCHANGED <<ret, kx, ky>>

\* the middle product is back; combine and return
KCombine ==
    /\ kmode = "return"
    /\ Top.pc = "mid"
    /\ ret' = KarCombine(Top.ac, Top.bd, ret, Top.m)
    /\ stack' = Pop
    /\ kmode' = IF Len(stack) = 1 THEN "done" ELSE "return"
    /\ UNCHANGED <<kx, ky>>

\* the steps karatsuba takes once it is called
KStep ==
    \/ KBase /\ KOnly
    \/ KRecurseAC /\ KOnly
    \/ KRecurseBD /\ KOnly
    \/ KRecurseMid /\ KOnly
    \/ KCombine /\ KOnly

KStart ==
    kmode = "idle" /\ \E x \in KOperands, y \in KOperands : KCall(x, y) /\ KOnly

KNext == KStart \/ KStep

SpecK == Init /\ [][KNext]_vars

\* karatsuba is sequential code: once called it keeps running
FairSpecK == SpecK /\ WF_vars(KStep)

----------------------------------------------------------------------------
(* Claims *)

InBase(v, b) == 0 <= v /\ v < b

\* every // of interpolate(p) has zero remainder
AllExact(p) == \A i \in 1..5 : InterpDividends(p)[i] % InterpDivisors[i] = 0

\* the coefficients of the product of two part-polynomials
Convolution(a, b) ==
    <<a[1] * b[1],
      a[1] * b[2] + a[2] * b[1],
      a[1] * b[3] + a[2] * b[2] + a[3] * b[1],
      a[2] * b[3] + a[3] * b[2],
      a[3] * b[3]>>

\* toom3 took the Toom-3 path (both operands at or above the threshold) and
\* has split them
ToomSplitDone ==
    /\ tpc \in {"split", "evaluated", "multiplied", "interpolated", "done"}
    /\ tx >= T_TOOM3 /\ ty >= T_TOOM3

\* C1: when karatsuba(x, y) has returned to its caller, the value returned is
\* x * y, for every pair of non-negative operands (zero, below the threshold
\* 10, of different digit lengths).
KaratsubaCorrect == kmode = "done" => ret = kx * ky

\* a recursive run on operands of different digit lengths has returned
KaratsubaWitness ==
    /\ kmode = "done"
    /\ kx >= T_KARATSUBA /\ ky >= T_KARATSUBA
    /\ StrLen(kx) # StrLen(ky)
    /\ ret = kx * ky

\* C2: when toom3(x, y) has returned, the value returned is x * y, on the
\* base-case path as on the Toom-3 path, whatever parts are zero.
ToomCorrect == tpc = "done" => tresult = tx * ty

\* a Toom-3 run in which a part of x is zero has returned
ToomWitness ==
    /\ tpc = "done"
    /\ tx >= T_TOOM3 /\ ty >= T_TOOM3
    /\ \E i \in 1..3 : xparts[i] = 0
    /\ tresult = tx * ty

InterpolateExact ==
    (ipc = "interpolated" /\ isrc = "product") => AllExact(ipoints)

\* interpolate has run on the product of two non-negative triples whose
\* product at -1 is negative
InterpolateExactWitness ==
    /\ ipc = "interpolated" /\ isrc = "product"
    /\ \A i \in 1..3 : tri1[i] >= 0 /\ tri2[i] >= 0
    /\ ipoints[3] < 0
    /\ AllExact(ipoints)

\* C5, as stated: interpolate(evaluate_at_points(a, b, c)) = (a, b, c, 0, 0).
SelfConsistencyAsStated ==
    (ipc = "interpolated" /\ isrc = "single") =>
        icoeffs = <<tri1[1], tri1[2], tri1[3], 0, 0>>

\* C5, amended: interpolating the pointwise product of the evaluations of
\* (a, b, c) and of the constant polynomial 1, (1, 0, 0), whose evaluation is
\* [1, 1, 1, 1, 0], gives (a, b, c, 0, 0); interpolate applied directly to
\* evaluate_at_points(a, b, c) gives (a, b + 2c, 0, -2c, c).
SelfConsistency ==
    /\ (ipc = "interpolated" /\ isrc = "product" /\ tri2 = <<1, 0, 0>>) =>
           icoeffs = <<tri1[1], tri1[2], tri1[3], 0, 0>>
    /\ (ipc = "interpolated" /\ isrc = "single") =>
           icoeffs = <<tri1[1], tri1[2] + 2 * tri1[3], 0, -2 * tri1[3], tri1[3]>>

\* the product with the evaluation of 1 was interpolated, for a triple with
\* a non-zero leading part and a negative part
SelfConsistencyWitness ==
    /\ ipc = "interpolated" /\ isrc = "product" /\ tri2 = <<1, 0, 0>>
    /\ tri1[3] # 0 /\ tri1[2] < 0
    /\ icoeffs = <<tri1[1], tri1[2], tri1[3], 0, 0>>

\* C6: whenever a division of interpolate leaves a remainder, interpolate
\* ends with an error and does not return.
InterpolateFailsLoudly ==
    (ipc = "interpolated" /\ ~AllExact(ipoints)) => outcome = "error"

\* C7, as stated: on the Toom-3 path all three parts of each operand lie in
\* [0, b).
ToomPartsBelowBase ==
    ToomSplitDone =>
        \A i \in 1..3 : InBase(xparts[i], tb) /\ InBase(yparts[i], tb)

\* C7, amended: on the Toom-3 path, with n the larger digit length and
\* b = 10^(n div 3), the two lower parts of each operand lie in [0, b); the
\* top part is the operand div b^2, it is >= 0 and below b * 10^(n mod 3),
\* and it can be b or more.
ToomPartsBounded ==
    ToomSplitDone =>
        LET top == tb * Pow10(Max(StrLen(tx), StrLen(ty)) % 3)
        IN /\ InBase(xparts[1], tb) /\ InBase(xparts[2], tb)
           /\ InBase(yparts[1], tb) /\ InBase(yparts[2], tb)
           /\ xparts[3] = tx \div (tb * tb) /\ InBase(xparts[3], top)
           /\ yparts[3] = ty \div (tb * tb) /\ InBase(yparts[3], top)

\* operands have been split and the top part of x is b or more
ToomPartsWitness ==
    /\ ToomSplitDone
    /\ xparts[3] >= tb
    /\ InBase(xparts[1], tb) /\ InBase(xparts[2], tb)

\* C8: every call on the karatsuba stack below the first has non-negative
\* arguments whose sum is strictly smaller than its caller's, and a call of
\* karatsuba always returns to its caller.
KMeasure ==
    \A i \in 1..(Len(stack) - 1) :
        /\ stack[i + 1].x >= 0 /\ stack[i + 1].y >= 0
        /\ stack[i + 1].x + stack[i + 1].y < stack[i].x + stack[i].y
KaratsubaTerminates == []KMeasure /\ ((kmode = "call") ~> (kmode = "done"))

\* the call karatsuba(a + b, c + d) of a frame with a = 0, so that a + b = x
KaratsubaTerminatesWitness ==
    \E i \in 1..(Len(stack) - 1) :
        /\ stack[i].pc = "mid" /\ stack[i].a = 0
        /\ stack[i + 1].x = stack[i].x
        /\ stack[i + 1].x + stack[i + 1].y < stack[i].x + stack[i].y

\* C9: on the Toom-3 path, once the five pointwise products are there,
\* toom3 has been invoked five more times, once per product.
ToomPointwiseRecursive ==
    (ToomSplitDone /\ tpc \in {"multiplied", "interpolated", "done"}) =>
        calls >= 1 + 5

\* C10: on the Toom-3 path the coefficients interpolate returns are those of
\* the product of the two part-polynomials, and none is negative.
ToomCoefficients ==
    (ToomSplitDone /\ tpc \in {"interpolated", "done"}) =>
        /\ coeffs = Convolution(xparts, yparts)
        /\ \A i \in 1..5 : coeffs[i] >= 0

\* interpolate has returned in a run whose product at -1 is negative
ToomCoefficientsWitness ==
    /\ ToomSplitDone /\ tpc = "interpolated"
    /\ points[3] < 0
    /\ coeffs = Convolution(xparts, yparts)

====
